---- MODULE Spec2Model ----
(***************************************************************************)
(* Model of src/app.py: the fundraising API (centers_db, donations_db) and *)
(* its request handlers, run by a threaded server: every request runs on   *)
(* a worker thread and the handlers take no lock, so a handler is a        *)
(* sequence of steps with at most one access to shared state each.         *)
(* resp is the response on the wire: it is set by the step that returns    *)
(* and cleared when the client has received it; returned is the log of the *)
(* successful recordings the clients were told of.                         *)
(*                                                                         *)
(* Amounts are Python floats.  A float is [k, v]: k = "fin" with the       *)
(* value v (whole currency units), or "nan", "inf", "ninf" with v = 0.     *)
(* Rounding of fractional amounts is not modelled.                         *)
(***************************************************************************)
EXTENDS Integers, Sequences, FiniteSets, TLC

VARIABLES centers_db, donations_db, paypal, pc, local, resp, returned, uuid_count, utcnow

vars == <<centers_db, donations_db, paypal, pc, local, resp, returned, uuid_count, utcnow>>

\* Donations created in one run of the model (uuid4 and utcnow calls).
MaxDonations == 2

\* Payments the gateway holds in one run of the model.
MaxPayments == 1

\* Worker threads of the server.
Threads == {1, 2}

-----------------------------------------------------------------------------
(* Floats *)

Fin(n) == [k |-> "fin", v |-> n]
NaN == [k |-> "nan", v |-> 0]
Inf == [k |-> "inf", v |-> 0]
NegInf == [k |-> "ninf", v |-> 0]

IsFinite(a) == a.k = "fin"

\* a + b
FAdd(a, b) ==
    IF a.k = "nan" \/ b.k = "nan" THEN NaN
    ELSE IF a.k = "fin" /\ b.k = "fin" THEN Fin(a.v + b.v)
    ELSE IF a.k = "fin" THEN b
    ELSE IF b.k = "fin" THEN a
    ELSE IF a.k = b.k THEN a
    ELSE NaN

\* a < b: false whenever an operand is NaN
FLt(a, b) ==
    IF a.k = "nan" \/ b.k = "nan" THEN FALSE
    ELSE IF a.k = "ninf" THEN b.k # "ninf"
    ELSE IF a.k = "inf" THEN FALSE
    ELSE IF b.k = "inf" THEN TRUE
    ELSE IF b.k = "ninf" THEN FALSE
    ELSE a.v < b.v

\* a == b: false whenever an operand is NaN
FEq(a, b) == a.k # "nan" /\ b.k # "nan" /\ a = b

\* a <= b
FLe(a, b) == FLt(a, b) \/ FEq(a, b)

\* The request's "amount" as the JSON payload carries it: t is "num" (a JSON
\* number that fits a float, the literals NaN and Infinity included),
\* "numstr" (a string spelling the float f, "nan" and "inf" included),
\* "text" (any other string), "null" (null, a list, an object) or "bigint"
\* (an integer literal beyond the range of a float).
RawNum(f) == [t |-> "num", f |-> f]
RawNumStr(f) == [t |-> "numstr", f |-> f]
RawText == [t |-> "text", f |-> Fin(0)]
RawNull == [t |-> "null", f |-> Fin(0)]
RawBigInt == [t |-> "bigint", f |-> Fin(0)]

\* float(x): the value, or the exception raised
ToFloat(raw) ==
    CASE raw.t = "num" -> [exc |-> "none", val |-> raw.f]
      [] raw.t = "numstr" -> [exc |-> "none", val |-> raw.f]
      [] raw.t = "text" -> [exc |-> "ValueError", val |-> Fin(0)]
      [] raw.t = "null" -> [exc |-> "TypeError", val |-> Fin(0)]
      [] raw.t = "bigint" -> [exc |-> "OverflowError", val |-> Fin(0)]

\* f"{amount:.2f}": the string the gateway is sent as the total, spelling
\* the amount ("nan" and "inf" included)
FormatTotal(amount) == RawNumStr(amount)

-----------------------------------------------------------------------------
(* Registry *)

\* A string of the catalog is written as the sequence of its pieces: an
\* upper-case letter, a space, or a run of other characters.  Join puts the
\* pieces together again.
RECURSIVE Join(_)
Join(pieces) == IF pieces = <<>> THEN "" ELSE Head(pieces) \o Join(Tail(pieces))

UpperCase == <<"A", "B", "C", "D", "E", "F", "G", "H", "I", "J", "K", "L", "M",
               "N", "O", "P", "Q", "R", "S", "T", "U", "V", "W", "X", "Y", "Z">>

LowerCase == <<"a", "b", "c", "d", "e", "f", "g", "h", "i", "j", "k", "l", "m",
               "n", "o", "p", "q", "r", "s", "t", "u", "v", "w", "x", "y", "z">>

\* str.lower()
Lower(pieces) ==
    [i \in DOMAIN pieces |->
        IF \E j \in DOMAIN UpperCase : UpperCase[j] = pieces[i]
        THEN LowerCase[CHOOSE j \in DOMAIN UpperCase : UpperCase[j] = pieces[i]]
        ELSE pieces[i]]

\* str.replace(' ', '_')
ReplaceSpaces(pieces) ==
    [i \in DOMAIN pieces |-> IF pieces[i] = " " THEN "_" ELSE pieces[i]]

\* f"{city.lower().replace(' ', '_')}_{country.lower()}"
CenterId(country, city) ==
    Join(ReplaceSpaces(Lower(city))) \o "_" \o Join(Lower(country))

Canada == <<"C", "anada">>

USA == <<"U", "S", "A">>

\* The catalog, in the order the loops of init_centers_db go through it
TARGET_CITIES == <<
    [country |-> Canada, city |-> <<"V", "ancouver">>],
    [country |-> Canada, city |-> <<"T", "oronto">>],
    [country |-> Canada, city |-> <<"M", "ontreal">>],
    [country |-> USA, city |-> <<"S", "an", " ", "F", "rancisco">>],
    [country |-> USA, city |-> <<"L", "os", " ", "A", "ngeles">>],
    [country |-> USA, city |-> <<"N", "ew", " ", "Y", "ork">>] >>

FUNDING_GOAL_PER_CENTER == 200000

CURRENCY == "USD"

MIN_DONATION == 10

\* last_donation = None
None == 0

\* The ids the entries of a catalog derive
CenterIds(catalog) == {CenterId(catalog[i].country, catalog[i].city) : i \in DOMAIN catalog}

\* The dict of lines 47-57; created_at is the clock at start
NewCenter(e) ==
    [id |-> CenterId(e.country, e.city),
     name |-> Join(e.city) \o " Suicide Prevention Center",
     location |-> [city |-> Join(e.city), country |-> Join(e.country)],
     funds_raised |-> Fin(0), goal |-> FUNDING_GOAL_PER_CENTER, donors |-> 0,
     last_donation |-> None, created_at |-> 0, currency |-> CURRENCY]

\* centers_db after init_centers_db() has gone through the catalog:
\* centers_db[center_id] = {...} replaces what an earlier entry with the same
\* id has put there
init_centers_db(catalog) ==
    [c \in CenterIds(catalog) |->
        LET last == CHOOSE i \in DOMAIN catalog :
                        /\ CenterId(catalog[i].country, catalog[i].city) = c
                        /\ \A j \in DOMAIN catalog :
                               CenterId(catalog[j].country, catalog[j].city) = c => j <= i
        IN NewCenter(catalog[last])]

-----------------------------------------------------------------------------
(* Requests *)

NoReq == [op |-> "none", payload |-> "ok", center_id |-> "", amount |-> RawNull,
          payment_id |-> 0]

Req(op, center_id, amount, payment_id) ==
    [op |-> op, payload |-> "ok", center_id |-> center_id, amount |-> amount,
     payment_id |-> payment_id]

\* /process_donation payloads: "missing" lacks a required field
DonationRequests ==
    {Req("process_donation", "toronto_canada", a, 0) :
        a \in {RawNum(Fin(9)), RawNum(Fin(10)), RawNumStr(NaN), RawNum(NegInf), RawText}}
    \cup {Req("process_donation", "atlantis", a, 0) :
        a \in {RawNum(Fin(9)), RawText, RawBigInt}}
    \cup {[NoReq EXCEPT !.op = "process_donation", !.payload = "missing"]}

\* /create_payment payloads
PaymentRequests ==
    {Req("create_payment", "new_york_usa", a, 0) :
        a \in {RawNum(Fin(9)), RawNum(Fin(75)), RawNum(NaN), RawText}}
    \cup {Req("create_payment", "atlantis", RawNum(Fin(75)), 0)}

\* /execute_payment payloads: a payment id the gateway may hold and one it
\* never holds
ExecuteRequests ==
    {Req("execute_payment", "toronto_canada", RawNull, p) : p \in {1, MaxPayments + 1}}
    \cup {Req("execute_payment", "atlantis", RawNull, 1)}
    \cup {[NoReq EXCEPT !.op = "execute_payment", !.payload = "missing"]}

NoLocal == [req |-> NoReq, amount |-> Fin(0), donation_id |-> 0, timestamp |-> 0,
            tmp |-> Fin(0), tmpn |-> 0]

\* A response: code is the HTTP status, error the kind of failure ("none" on
\* success), id the donation_id or payment_id returned (0 when none), body
\* the centers or donations returned.
Response(req, code, error, id, body) ==
    [req |-> req, code |-> code, error |-> error, id |-> id, body |-> body]

NoResp == Response(NoReq, 0, "none", 0, <<>>)

\* amount < 9: a minimum one unit lower
BelowMinimum_Nine(amount) == FLt(amount, Fin(MIN_DONATION - 1))

\* amount <= 10: a minimum that excludes 10 itself
BelowMinimum_Exclusive(amount) == FLe(amount, Fin(MIN_DONATION))

\* amount < 10
BelowMinimum(amount) == FLt(amount, Fin(MIN_DONATION))

\* The checks of process_donation with the minimum checked before the center
ValidateDonation_MinimumFirst(req) ==
    IF req.payload = "invalid" THEN [code |-> 400, error |-> "InvalidInput"]
    ELSE IF req.payload = "missing" THEN [code |-> 400, error |-> "InvalidInput"]
    ELSE IF ToFloat(req.amount).exc \in {"ValueError", "TypeError"}
        THEN [code |-> 400, error |-> "InvalidAmount"]
    ELSE IF ToFloat(req.amount).exc # "none" THEN [code |-> 500, error |-> "Unhandled"]
    ELSE IF BelowMinimum(ToFloat(req.amount).val)
        THEN [code |-> 400, error |-> "BelowMinimum"]
    ELSE IF req.center_id \notin DOMAIN centers_db
        THEN [code |-> 404, error |-> "CenterNotFound"]
    ELSE IF FLe(ToFloat(req.amount).val, Fin(0))
        THEN [code |-> 400, error |-> "NotPositive"]
    ELSE [code |-> 200, error |-> "none"]

\* The checks of process_donation with the center checked before the amount
\* is converted
ValidateDonation_CenterFirst(req) ==
    IF req.payload = "invalid" THEN [code |-> 400, error |-> "InvalidInput"]
    ELSE IF req.payload = "missing" THEN [code |-> 400, error |-> "InvalidInput"]
    ELSE IF req.center_id \notin DOMAIN centers_db
        THEN [code |-> 404, error |-> "CenterNotFound"]
    ELSE IF ToFloat(req.amount).exc \in {"ValueError", "TypeError"}
        THEN [code |-> 400, error |-> "InvalidAmount"]
    ELSE IF ToFloat(req.amount).exc # "none" THEN [code |-> 500, error |-> "Unhandled"]
    ELSE IF BelowMinimum(ToFloat(req.amount).val)
        THEN [code |-> 400, error |-> "BelowMinimum"]
    ELSE IF FLe(ToFloat(req.amount).val, Fin(0))
        THEN [code |-> 400, error |-> "NotPositive"]
    ELSE [code |-> 200, error |-> "none"]

\* The checks of process_donation in the order of the code; "none" when the
\* request passes.  "Unhandled" is the OverflowError of float(), which no
\* except clause catches.
ValidateDonation(req) ==
    IF req.payload = "invalid" THEN [code |-> 400, error |-> "InvalidInput"]
    ELSE IF req.payload = "missing" THEN [code |-> 400, error |-> "InvalidInput"]
    ELSE IF ToFloat(req.amount).exc \in {"ValueError", "TypeError"}
        THEN [code |-> 400, error |-> "InvalidAmount"]
    ELSE IF ToFloat(req.amount).exc # "none" THEN [code |-> 500, error |-> "Unhandled"]
    ELSE IF req.center_id \notin DOMAIN centers_db
        THEN [code |-> 404, error |-> "CenterNotFound"]
    ELSE IF BelowMinimum(ToFloat(req.amount).val)
        THEN [code |-> 400, error |-> "BelowMinimum"]
    ELSE IF FLe(ToFloat(req.amount).val, Fin(0))
        THEN [code |-> 400, error |-> "NotPositive"]
    ELSE [code |-> 200, error |-> "none"]

\* donations_db[center_id] = donation: a ledger keyed by the center, where a
\* donation takes the place of the center's earlier one
DictSet_KeyedByCenter(db, donation) ==
    IF \E i \in DOMAIN db : db[i].center_id = donation.center_id
    THEN [i \in DOMAIN db |->
             IF db[i].center_id = donation.center_id THEN donation ELSE db[i]]
    ELSE Append(db, donation)

\* donations_db[donation_id] = donation: donations_db is the sequence of the
\* dict's values in insertion order
DictSet(db, donation) ==
    IF \E i \in DOMAIN db : db[i].id = donation.id
    THEN [i \in DOMAIN db |-> IF db[i].id = donation.id THEN donation ELSE db[i]]
    ELSE Append(db, donation)

Init ==
    /\ centers_db = init_centers_db(TARGET_CITIES)
    /\ donations_db = <<>>
    /\ paypal = <<>>
    /\ pc = [t \in Threads |-> "idle"]
    /\ local = [t \in Threads |-> NoLocal]
    /\ resp = NoResp
    /\ returned = {}
    /\ uuid_count = 0
    /\ utcnow = 0

\* A request arrives at a free thread
Accept(t) == pc[t] = "idle" /\ resp = NoResp

\* The handler returns r: the thread is free again
Return(t, r) ==
    /\ resp' = r
    /\ pc' = [pc EXCEPT ![t] = "idle"]
    /\ local' = [local EXCEPT ![t] = NoLocal]

\* The handler goes on at label next with its locals l
Goto(t, next, l) ==
    /\ pc' = [pc EXCEPT ![t] = next]
    /\ local' = [local EXCEPT ![t] = l]
    /\ UNCHANGED resp

\* donation_id = str(uuid.uuid4()); timestamp = datetime.utcnow().isoformat()
NewDonation(t, req, amount, next) ==
    /\ uuid_count < MaxDonations
    /\ uuid_count' = uuid_count + 1
    /\ utcnow' = utcnow + 1
    /\ Goto(t, next, [NoLocal EXCEPT !.req = req, !.amount = amount,
                                     !.donation_id = uuid_count + 1,
                                     !.timestamp = utcnow + 1])

-----------------------------------------------------------------------------
(* The recording sequence, written twice in the source: lines 158-173 of   *)
(* process_donation and lines 343-358 of execute_payment.                  *)

\* donations_db[donation_id] = donation
StoreDonation(t, donation, next) ==
    /\ resp = NoResp
    /\ donations_db' = DictSet(donations_db, donation)
    /\ Goto(t, next, local[t])
    /\ UNCHANGED <<centers_db, paypal, returned, uuid_count, utcnow>>

\* centers_db[center_id]["funds_raised"] += amount: the operand is read
LoadFunds(t, next) ==
    /\ resp = NoResp
    /\ Goto(t, next, [local[t] EXCEPT
                         !.tmp = centers_db[local[t].req.center_id].funds_raised])
    /\ UNCHANGED <<centers_db, donations_db, paypal, returned, uuid_count, utcnow>>

\* The store of funds_raised that credits the center the payment was created
\* for (the sku of its item) when the call has a payment
StoreFunds_CreditsPaymentCenter(t, next) ==
    LET center == IF local[t].req.payment_id \in DOMAIN paypal
                  THEN paypal[local[t].req.payment_id].sku
                  ELSE local[t].req.center_id
    IN /\ resp = NoResp
       /\ centers_db' = [centers_db EXCEPT ![center].funds_raised =
                            FAdd(local[t].tmp, local[t].amount)]
       /\ Goto(t, next, [local[t] EXCEPT !.tmp = NoLocal.tmp])
       /\ UNCHANGED <<donations_db, paypal, returned, uuid_count, utcnow>>

\* The store of funds_raised that also takes the amount off the center's goal
StoreFunds_LowersGoal(t, next) ==
    /\ resp = NoResp
    /\ centers_db' = [centers_db EXCEPT
                         ![local[t].req.center_id].funds_raised =
                             FAdd(local[t].tmp, local[t].amount),
                         ![local[t].req.center_id].goal = @ - local[t].amount.v]
    /\ Goto(t, next, [local[t] EXCEPT !.tmp = NoLocal.tmp])
    /\ UNCHANGED <<donations_db, paypal, returned, uuid_count, utcnow>>

\* ... and the sum is written back; the operand read is then gone
StoreFunds(t, next) ==
    /\ resp = NoResp
    /\ centers_db' = [centers_db EXCEPT ![local[t].req.center_id].funds_raised =
                         FAdd(local[t].tmp, local[t].amount)]
    /\ Goto(t, next, [local[t] EXCEPT !.tmp = NoLocal.tmp])
    /\ UNCHANGED <<donations_db, paypal, returned, uuid_count, utcnow>>

\* centers_db[center_id]["donors"] += 1: the operand is read
LoadDonors(t, next) ==
    /\ resp = NoResp
    /\ Goto(t, next, [local[t] EXCEPT !.tmpn = centers_db[local[t].req.center_id].donors])
    /\ UNCHANGED <<centers_db, donations_db, paypal, returned, uuid_count, utcnow>>

\* ... and the sum is written back; the operand read is then gone
StoreDonors(t, next) ==
    /\ resp = NoResp
    /\ centers_db' = [centers_db EXCEPT ![local[t].req.center_id].donors =
                         local[t].tmpn + 1]
    /\ Goto(t, next, [local[t] EXCEPT !.tmpn = NoLocal.tmpn])
    /\ UNCHANGED <<donations_db, paypal, returned, uuid_count, utcnow>>

\* centers_db[center_id]["last_donation"] = timestamp
StoreLastDonation(t, next) ==
    /\ resp = NoResp
    /\ centers_db' = [centers_db EXCEPT ![local[t].req.center_id].last_donation =
                         local[t].timestamp]
    /\ Goto(t, next, local[t])
    /\ UNCHANGED <<donations_db, paypal, returned, uuid_count, utcnow>>

\* return jsonify({"status": "success", "donation_id": ..., "center": ...})
RespondSuccess(t) ==
    /\ resp = NoResp
    /\ Return(t, Response(local[t].req, 200, "none", local[t].donation_id,
                          <<centers_db[local[t].req.center_id]>>))
    /\ returned' = returned \cup {[donation_id |-> local[t].donation_id,
                                   center_id |-> local[t].req.center_id,
                                   amount |-> local[t].amount]}
    /\ UNCHANGED <<centers_db, donations_db, paypal, uuid_count, utcnow>>

-----------------------------------------------------------------------------
(* POST /process_donation *)

\* The donation record of lines 147-156
DirectDonation(t) ==
    [id |-> local[t].donation_id, center_id |-> local[t].req.center_id,
     amount |-> local[t].amount, payment_method |-> "direct", payment_id |-> 0,
     status |-> "pending", created_at |-> local[t].timestamp,
     currency |-> centers_db[local[t].req.center_id].currency]

\* Lines 98-145: the checks, then the donation's id and timestamp
process_donation(t) ==
    /\ Accept(t)
    /\ \E req \in DonationRequests :
         LET v == ValidateDonation(req) IN
         IF v.error # "none"
         THEN /\ Return(t, Response(req, v.code, v.error, 0, <<>>))
              /\ UNCHANGED <<uuid_count, utcnow>>
         ELSE NewDonation(t, req, ToFloat(req.amount).val, "pd_store")
    /\ UNCHANGED <<centers_db, donations_db, paypal, returned>>

pd_store(t) == pc[t] = "pd_store" /\ StoreDonation(t, DirectDonation(t), "pd_load_funds")

pd_load_funds(t) == pc[t] = "pd_load_funds" /\ LoadFunds(t, "pd_store_funds")

pd_store_funds(t) == pc[t] = "pd_store_funds" /\ StoreFunds(t, "pd_load_donors")

pd_load_donors(t) == pc[t] = "pd_load_donors" /\ LoadDonors(t, "pd_store_donors")

pd_store_donors(t) == pc[t] = "pd_store_donors" /\ StoreDonors(t, "pd_store_last")

pd_store_last(t) == pc[t] = "pd_store_last" /\ StoreLastDonation(t, "pd_respond")

pd_respond(t) == pc[t] = "pd_respond" /\ RespondSuccess(t)

-----------------------------------------------------------------------------
(* The gateway (paypalrestsdk): paypal is the sequence of the payments it  *)
(* holds, a payment's id being its index.  The gateway answers every call: *)
(* a connection that fails is not modelled.                                *)

\* The checks of create_payment in the order of the code
ValidatePayment(req) ==
    IF req.payload = "invalid" THEN [code |-> 400, error |-> "InvalidInput"]
    ELSE IF req.payload = "missing" THEN [code |-> 400, error |-> "InvalidInput"]
    ELSE IF ToFloat(req.amount).exc \in {"ValueError", "TypeError"}
        THEN [code |-> 400, error |-> "InvalidAmount"]
    ELSE IF ToFloat(req.amount).exc # "none" THEN [code |-> 500, error |-> "Unhandled"]
    ELSE IF req.center_id \notin DOMAIN centers_db
        THEN [code |-> 404, error |-> "CenterNotFound"]
    ELSE IF BelowMinimum(ToFloat(req.amount).val)
        THEN [code |-> 400, error |-> "BelowMinimum"]
    ELSE [code |-> 200, error |-> "none"]

\* payment.create(): the gateway takes the payment (a total that is no
\* number is refused) and answers with or without an approval link, or it
\* refuses the payment
GatewayCreate(t, req) ==
    \/ /\ Len(paypal) < MaxPayments
       /\ IsFinite(ToFloat(req.amount).val)
       /\ paypal' = Append(paypal, [state |-> "created", sku |-> req.center_id,
                                    total |-> FormatTotal(ToFloat(req.amount).val)])
       /\ \/ Return(t, Response(req, 200, "none", Len(paypal) + 1, <<>>))
          \/ Return(t, Response(req, 500, "GatewayProtocolError", 0, <<>>))
    \/ /\ UNCHANGED paypal
       /\ Return(t, Response(req, 500, "GatewayError", 0, <<>>))

\* create_payment counting the payer as a donor of the center as soon as the
\* gateway is asked
create_payment_CountsDonor(t) ==
    /\ Accept(t)
    /\ \E req \in PaymentRequests :
         LET v == ValidatePayment(req) IN
         IF v.error # "none"
         THEN /\ Return(t, Response(req, v.code, v.error, 0, <<>>))
              /\ UNCHANGED <<paypal, centers_db>>
         ELSE /\ GatewayCreate(t, req)
              /\ centers_db' = [centers_db EXCEPT ![req.center_id].donors = @ + 1]
    /\ UNCHANGED <<donations_db, returned, uuid_count, utcnow>>

\* POST /create_payment
create_payment(t) ==
    /\ Accept(t)
    /\ \E req \in PaymentRequests :
         LET v == ValidatePayment(req) IN
         IF v.error # "none"
         THEN /\ Return(t, Response(req, v.code, v.error, 0, <<>>))
              /\ UNCHANGED paypal
         ELSE GatewayCreate(t, req)
    /\ UNCHANGED <<centers_db, donations_db, returned, uuid_count, utcnow>>

-----------------------------------------------------------------------------
(* POST /execute_payment *)

\* The checks of lines 289-315
ValidateExecute(req) ==
    IF req.payload = "invalid" THEN [code |-> 400, error |-> "InvalidInput"]
    ELSE IF req.payload = "missing" THEN [code |-> 400, error |-> "InvalidInput"]
    ELSE IF req.center_id \notin DOMAIN centers_db
        THEN [code |-> 404, error |-> "CenterNotFound"]
    ELSE [code |-> 200, error |-> "none"]

\* execute_payment with the center checked after the gateway has executed
\* the payment
execute_payment_GatewayFirst(t) ==
    /\ Accept(t)
    /\ \E req \in ExecuteRequests :
         LET v == ValidateExecute(req) IN
         IF v.error = "CenterNotFound" /\ req.payment_id \in DOMAIN paypal
         THEN /\ paypal' = [paypal EXCEPT ![req.payment_id].state = "executed"]
              /\ Return(t, Response(req, v.code, v.error, 0, <<>>))
         ELSE /\ UNCHANGED paypal
              /\ IF v.error # "none"
                 THEN Return(t, Response(req, v.code, v.error, 0, <<>>))
                 ELSE Goto(t, "ep_find", [NoLocal EXCEPT !.req = req])
    /\ UNCHANGED <<centers_db, donations_db, returned, uuid_count, utcnow>>

\* Lines 286-315: the checks that precede the gateway
execute_payment(t) ==
    /\ Accept(t)
    /\ \E req \in ExecuteRequests :
         LET v == ValidateExecute(req) IN
         IF v.error # "none"
         THEN Return(t, Response(req, v.code, v.error, 0, <<>>))
         ELSE Goto(t, "ep_find", [NoLocal EXCEPT !.req = req])
    /\ UNCHANGED <<centers_db, donations_db, paypal, returned, uuid_count, utcnow>>

\* Payment.find without the except ResourceNotFound clause: a payment the
\* gateway does not hold ends in the handler's except Exception clause
ep_find_NoNotFoundClause(t) ==
    /\ pc[t] = "ep_find"
    /\ resp = NoResp
    /\ IF local[t].req.payment_id \in DOMAIN paypal
       THEN Goto(t, "ep_execute", local[t])
       ELSE Return(t, Response(local[t].req, 500, "InternalError", 0, <<>>))
    /\ UNCHANGED <<centers_db, donations_db, paypal, returned, uuid_count, utcnow>>

\* payment = paypalrestsdk.Payment.find(payment_id): the payment, or
\* ResourceNotFound
ep_find(t) ==
    /\ pc[t] = "ep_find"
    /\ resp = NoResp
    /\ IF local[t].req.payment_id \in DOMAIN paypal
       THEN Goto(t, "ep_execute", local[t])
       ELSE Return(t, Response(local[t].req, 404, "PaymentNotFound", 0, <<>>))
    /\ UNCHANGED <<centers_db, donations_db, paypal, returned, uuid_count, utcnow>>

\* payment.execute({"payer_id": payer_id}): the gateway captures a payment
\* once, when its payer has approved it, and else refuses; lines 324-328
\* then read the captured total and make the donation's id and timestamp
ep_execute(t) ==
    /\ pc[t] = "ep_execute"
    /\ resp = NoResp
    /\ \/ /\ paypal[local[t].req.payment_id].state = "created"
          /\ paypal' = [paypal EXCEPT ![local[t].req.payment_id].state = "executed"]
          /\ NewDonation(t, local[t].req,
                         ToFloat(paypal[local[t].req.payment_id].total).val,
                         "ep_store")
       \/ /\ Return(t, Response(local[t].req, 500, "GatewayError", 0, <<>>))
          /\ UNCHANGED <<paypal, uuid_count, utcnow>>
    /\ UNCHANGED <<centers_db, donations_db, returned>>

\* The donation record of lines 330-341
GatewayDonation(t) ==
    [id |-> local[t].donation_id, center_id |-> local[t].req.center_id,
     amount |-> local[t].amount, payment_method |-> "paypal",
     payment_id |-> local[t].req.payment_id, status |-> "completed",
     created_at |-> local[t].timestamp,
     currency |-> centers_db[local[t].req.center_id].currency]

ep_store(t) == pc[t] = "ep_store" /\ StoreDonation(t, GatewayDonation(t), "ep_load_funds")

ep_load_funds(t) == pc[t] = "ep_load_funds" /\ LoadFunds(t, "ep_store_funds")

ep_store_funds(t) == pc[t] = "ep_store_funds" /\ StoreFunds(t, "ep_load_donors")

ep_load_donors(t) == pc[t] = "ep_load_donors" /\ LoadDonors(t, "ep_store_donors")

ep_store_donors(t) == pc[t] = "ep_store_donors" /\ StoreDonors(t, "ep_store_last")

ep_store_last(t) == pc[t] = "ep_store_last" /\ StoreLastDonation(t, "ep_respond")

ep_respond(t) == pc[t] = "ep_respond" /\ RespondSuccess(t)

-----------------------------------------------------------------------------
(* The reads: each returns the shared state as it is when it runs *)

\* A read-only handler returns r
Read(t, r) ==
    /\ Accept(t)
    /\ resp' = r
    /\ UNCHANGED <<centers_db, donations_db, paypal, pc, local, returned, uuid_count, utcnow>>

\* list(centers_db.values()), in insertion order
CenterList ==
    LET ids == [i \in DOMAIN TARGET_CITIES |->
                   CenterId(TARGET_CITIES[i].country, TARGET_CITIES[i].city)]
        first(i) == \A j \in 1..(i - 1) : ids[j] # ids[i]
    IN [i \in {j \in DOMAIN ids : first(j)} |-> centers_db[ids[i]]]

\* GET /centers
get_all_centers(t) ==
    Read(t, Response([NoReq EXCEPT !.op = "get_all_centers"], 200, "none", 0, CenterList))

\* GET /centers/<center_id>
get_center(t) ==
    \E c \in {"toronto_canada", "atlantis"} :
        LET req == [NoReq EXCEPT !.op = "get_center", !.center_id = c] IN
        IF c \in DOMAIN centers_db
        THEN Read(t, Response(req, 200, "none", 0, <<centers_db[c]>>))
        ELSE Read(t, Response(req, 404, "CenterNotFound", 0, <<>>))

\* GET /donations
get_all_donations(t) ==
    Read(t, Response([NoReq EXCEPT !.op = "get_all_donations"], 200, "none", 0,
                     donations_db))

\* GET /donations/<donation_id>
get_donation(t) ==
    \E d \in {1, MaxDonations + 1} :
        LET req == [NoReq EXCEPT !.op = "get_donation"] IN
        IF \E i \in DOMAIN donations_db : donations_db[i].id = d
        THEN Read(t, Response(req, 200, "none", d,
                              SelectSeq(donations_db, LAMBDA x : x.id = d)))
        ELSE Read(t, Response(req, 404, "DonationNotFound", d, <<>>))

-----------------------------------------------------------------------------

\* The client has received the response
deliver ==
    /\ resp # NoResp
    /\ resp' = NoResp
    /\ UNCHANGED <<centers_db, donations_db, paypal, pc, local, returned, uuid_count, utcnow>>

Next ==
    \/ \E t \in Threads :
        \/ process_donation(t)
        \/ pd_store(t)
        \/ pd_load_funds(t)
        \/ pd_store_funds(t)
        \/ pd_load_donors(t)
        \/ pd_store_donors(t)
        \/ pd_store_last(t)
        \/ pd_respond(t)
        \/ create_payment(t)
        \/ execute_payment(t)
        \/ ep_find(t)
        \/ ep_execute(t)
        \/ ep_store(t)
        \/ ep_load_funds(t)
        \/ ep_store_funds(t)
        \/ ep_load_donors(t)
        \/ ep_store_donors(t)
        \/ ep_store_last(t)
        \/ ep_respond(t)
        \/ get_all_centers(t)
        \/ get_center(t)
        \/ get_all_donations(t)
        \/ get_donation(t)
    \/ deliver

Spec == Init /\ [][Next]_vars

-----------------------------------------------------------------------------
(* init_centers_db as a function of its catalog: the start of the process,  *)
(* from the empty dicts of lines 32-33, for catalogs other than the one     *)
(* written into the function.                                               *)

\* Entries of a catalog
MaxCatalog == 3

\* Entries that differ from one of the default catalog, or from each other,
\* in the case of a letter or in a space written as an underscore
CatalogEntries ==
    {[country |-> USA, city |-> <<"N", "ew", " ", "Y", "ork">>],
     [country |-> USA, city |-> <<"new_york">>],
     [country |-> USA, city |-> <<"S", "an", " ", "F", "rancisco">>],
     [country |-> <<"U", "sa">>, city |-> <<"S", "an", " ", "F", "rancisco">>],
     [country |-> Canada, city |-> <<"T", "oronto">>],
     [country |-> Canada, city |-> <<"toronto">>],
     [country |-> Canada, city |-> <<"V", "ancouver">>],
     [country |-> <<"canada">>, city |-> <<"V", "ancouver">>],
     [country |-> Canada, city |-> <<"M", "ontreal">>],
     [country |-> <<"C", "A", "N", "A", "D", "A">>, city |-> <<"M", "ontreal">>]}

\* TARGET_CITIES is a dict of lists: the cities of a country follow each other
Grouped(catalog) ==
    \A i, j, k \in DOMAIN catalog :
        (i < j /\ j < k /\ catalog[i].country = catalog[k].country) =>
            catalog[j].country = catalog[i].country

Catalogs ==
    {catalog \in UNION {[1..n -> CatalogEntries] : n \in 1..MaxCatalog} : Grouped(catalog)}

\* centers_db = {} and donations_db = {}: the process before init_centers_db()
InitEmpty ==
    /\ centers_db = <<>>
    /\ donations_db = <<>>
    /\ paypal = <<>>
    /\ pc = [t \in Threads |-> "idle"]
    /\ local = [t \in Threads |-> NoLocal]
    /\ resp = NoResp
    /\ returned = {}
    /\ uuid_count = 0
    /\ utcnow = 0

\* init_centers_db() runs, once, over its catalog
run_init_centers_db ==
    /\ centers_db = <<>>
    /\ \E catalog \in Catalogs : centers_db' = init_centers_db(catalog)
    /\ UNCHANGED <<donations_db, paypal, pc, local, resp, returned, uuid_count, utcnow>>

NextInit == run_init_centers_db

SpecInit == InitEmpty /\ [][NextInit]_vars

-----------------------------------------------------------------------------
(* Properties *)

\* No handler is running
Quiescent == \A t \in Threads : pc[t] = "idle"

\* The donations of the ledger made to center c
DonationsTo(c) == SelectSeq(donations_db, LAMBDA d : d.center_id = c)

RECURSIVE SumSeq(_)
\* The sum of the amounts of a sequence of donations, first to last
SumSeq(ds) == IF ds = <<>> THEN Fin(0) ELSE FAdd(SumSeq(SubSeq(ds, 1, Len(ds) - 1)), ds[Len(ds)].amount)

RECURSIVE SumSet(_)
\* The sum of the amounts of a set of records
SumSet(S) == IF S = {} THEN Fin(0) ELSE LET x == CHOOSE y \in S : TRUE IN FAdd(x.amount, SumSet(S \ {x}))

\* The step returns a response to a request of kind op
Responds(op) == resp = NoResp /\ resp' # NoResp /\ resp'.req.op = op

\* Thread t takes the step from label from to label to
Steps(t, from, to) == pc[t] = from /\ pc'[t] = to

\* Neither the ledger nor a center changes
NoSideEffect == donations_db' = donations_db /\ centers_db' = centers_db

\* C1: whenever every call has returned, each center's funds_raised is the
\* sum of the amounts of the ledger's donations to it and its donors their
\* number (a NaN total counts as equal to a NaN sum).
C1_AggregatesMatchLedger ==
    Quiescent =>
        \A c \in DOMAIN centers_db :
            /\ centers_db[c].funds_raised = SumSeq(DonationsTo(c))
            /\ centers_db[c].donors = Len(DonationsTo(c))

\* C2: once the recording calls have returned, each center's funds_raised
\* has grown by the sum of the amounts of the calls that returned success,
\* its donors by their number, and the donation of each is in the ledger.
C2_NoLostUpdate ==
    Quiescent =>
        /\ \A c \in DOMAIN centers_db :
              LET calls == {r \in returned : r.center_id = c} IN
              /\ centers_db[c].funds_raised = SumSet(calls)
              /\ centers_db[c].donors = Cardinality(calls)
        /\ \A r \in returned : \E i \in DOMAIN donations_db :
              /\ donations_db[i].id = r.donation_id
              /\ donations_db[i].amount = r.amount
              /\ donations_db[i].center_id = r.center_id

\* C3: what GET /centers returns agrees with the ledger as it is at that
\* moment, and what GET /donations returns agrees with the centers: every
\* donation of the ledger is counted in its center's funds_raised and donors,
\* and nothing else is.
C3_ReadersSeeOneCriticalSection ==
    /\ resp.req.op = "get_all_centers" =>
          \A i \in DOMAIN resp.body :
              /\ resp.body[i].funds_raised = SumSeq(DonationsTo(resp.body[i].id))
              /\ resp.body[i].donors = Len(DonationsTo(resp.body[i].id))
    /\ resp.req.op = "get_all_donations" =>
          \A c \in DOMAIN centers_db :
              LET ds == SelectSeq(resp.body, LAMBDA d : d.center_id = c) IN
              /\ centers_db[c].funds_raised = SumSeq(ds)
              /\ centers_db[c].donors = Len(ds)

\* C4: an execute_payment call whose payment the gateway captures with total
\* A adds one donation to the ledger, with amount A, status completed,
\* payment method paypal and the call's payment id, and makes the named
\* center's funds_raised grow by A and its donors by 1.
C4_ExecuteRecordsOnce ==
    [][\A t \in Threads :
          /\ Steps(t, "ep_execute", "ep_store") =>
                local'[t].amount = ToFloat(paypal[local[t].req.payment_id].total).val
          /\ Steps(t, "ep_store", "ep_load_funds") =>
                /\ Len(donations_db') = Len(donations_db) + 1
                /\ SubSeq(donations_db', 1, Len(donations_db)) = donations_db
                /\ LET d == donations_db'[Len(donations_db')] IN
                      /\ d.id = local[t].donation_id
                      /\ d.amount = local[t].amount
                      /\ d.status = "completed"
                      /\ d.payment_method = "paypal"
                      /\ d.payment_id = local[t].req.payment_id
                      /\ d.center_id = local[t].req.center_id
          /\ Steps(t, "ep_store_funds", "ep_load_donors") =>
                centers_db'[local[t].req.center_id].funds_raised =
                    FAdd(centers_db[local[t].req.center_id].funds_raised, local[t].amount)
          /\ Steps(t, "ep_store_donors", "ep_store_last") =>
                centers_db'[local[t].req.center_id].donors =
                    centers_db[local[t].req.center_id].donors + 1
      ]_vars

\* The request r names a center of the registry
CenterKnown(r) == r.center_id \in DOMAIN centers_db

\* float() converts the amount of request r
Parses(r) == ToFloat(r.amount).exc = "none"

\* The amount of request r converts to a float below 10
Below10(r) ==
    /\ Parses(r)
    /\ \/ ToFloat(r.amount).val.k = "ninf"
       \/ ToFloat(r.amount).val.k = "fin" /\ ToFloat(r.amount).val.v < 10

\* The amount of request r converts to a finite float of at least 10
FiniteFrom10(r) ==
    Parses(r) /\ ToFloat(r.amount).val.k = "fin" /\ ToFloat(r.amount).val.v >= 10

\* The step answers a /process_donation request that has all its fields
AnswersDonation == Responds("process_donation") /\ resp'.req.payload = "ok"

\* The step answers an /execute_payment request that has all its fields
AnswersExecute == Responds("execute_payment") /\ resp'.req.payload = "ok"

\* C5: process_donation for a center of the registry with an amount below 10
\* answers BelowMinimum (400), and the ledger and every center stay as they
\* are.
C5_BelowMinimumRejected ==
    [][(AnswersDonation /\ CenterKnown(resp'.req) /\ Below10(resp'.req)) =>
          /\ resp'.error = "BelowMinimum"
          /\ resp'.code = 400
          /\ NoSideEffect
      ]_vars

\* C5 happens: an amount of 9 for a center of the registry is answered while
\* the other thread is recording a donation.
C5_Witness ==
    /\ resp.req.op = "process_donation"
    /\ resp.req.amount = RawNum(Fin(9))
    /\ resp.req.center_id = "toronto_canada"
    /\ resp.error = "BelowMinimum"
    /\ \E t \in Threads : pc[t] = "pd_store_funds"

\* C6: process_donation for a center of the registry with a finite amount of
\* 10 or more is answered with success and the center as it then is; the
\* call has put one new donation into the ledger, under the id it returns,
\* with that amount, status pending and the center's currency, and its other
\* steps leave the ledger alone.
C6_MinimumInclusive ==
    [][/\ (AnswersDonation /\ CenterKnown(resp'.req) /\ FiniteFrom10(resp'.req)) =>
             /\ resp'.code = 200
             /\ resp'.error = "none"
             /\ resp'.body = <<centers_db[resp'.req.center_id]>>
             /\ resp'.body[1].donors >= 1
             /\ Cardinality({i \in DOMAIN donations_db : donations_db[i].id = resp'.id}) = 1
             /\ \A i \in DOMAIN donations_db :
                   donations_db[i].id = resp'.id =>
                      /\ donations_db[i].amount = ToFloat(resp'.req.amount).val
                      /\ donations_db[i].status = "pending"
                      /\ donations_db[i].center_id = resp'.req.center_id
                      /\ donations_db[i].currency = centers_db[resp'.req.center_id].currency
       /\ \A t \in Threads :
             /\ Steps(t, "pd_store", "pd_load_funds") =>
                   /\ Len(donations_db') = Len(donations_db) + 1
                   /\ SubSeq(donations_db', 1, Len(donations_db)) = donations_db
                   /\ donations_db'[Len(donations_db')].id = local[t].donation_id
                   /\ \A i \in DOMAIN donations_db : donations_db[i].id # local[t].donation_id
             /\ (pc[t] \in {"pd_load_funds", "pd_store_funds", "pd_load_donors",
                            "pd_store_donors", "pd_store_last", "pd_respond"}
                 /\ pc'[t] # pc[t]) => donations_db' = donations_db
             /\ (pc[t] = "idle" /\ pc'[t] = "pd_store") => donations_db' = donations_db
      ]_vars

\* C6 happens: a donation of exactly 10 has been answered with success.
C6_Witness ==
    /\ resp.req.op = "process_donation"
    /\ resp.req.amount = RawNum(Fin(10))
    /\ resp.code = 200
    /\ Len(donations_db) = 2

LookupStep(t) ==
    \/ pc[t] = "idle" /\ pc'[t] = "ep_find"
    \/ pc[t] = "ep_find" /\ pc'[t] = "idle"

\* C8 as stated: execute_payment with a payment id the gateway does not hold
\* answers PaymentNotFound and changes neither the ledger nor a center.
C8_UnknownPaymentAlwaysNotFound ==
    [][(AnswersExecute /\ resp'.req.payment_id \notin DOMAIN paypal) =>
          /\ resp'.error = "PaymentNotFound"
          /\ resp'.code = 404
          /\ NoSideEffect
      ]_vars

\* C8 amended: execute_payment with a payment id the gateway does not hold
\* changes neither the ledger nor a center, and answers PaymentNotFound (404)
\* when its center is in the registry; a center that is not is answered
\* first, with CenterNotFound.
C8_UnknownPaymentNoDonation ==
    [][/\ (AnswersExecute /\ resp'.req.payment_id \notin DOMAIN paypal) =>
             /\ NoSideEffect
             /\ IF CenterKnown(resp'.req)
                THEN resp'.error = "PaymentNotFound" /\ resp'.code = 404
                ELSE resp'.error = "CenterNotFound" /\ resp'.code = 404
       /\ \A t \in Threads : LookupStep(t) => NoSideEffect
      ]_vars

\* C8 happens: the lookup of a payment the gateway does not hold is answered
\* PaymentNotFound for a center of the registry.
C8_Witness ==
    /\ resp.req.op = "execute_payment"
    /\ resp.req.center_id = "toronto_canada"
    /\ resp.req.payment_id \notin DOMAIN paypal
    /\ resp.error = "PaymentNotFound"
    /\ Len(donations_db) > 0

C10_NonFiniteRejected ==
    /\ (resp.req.op = "process_donation" /\ resp.req.payload = "ok"
        /\ ~(Parses(resp.req) /\ ToFloat(resp.req.amount).val.k = "fin")
        /\ CenterKnown(resp.req)) => resp.error = "InvalidAmount"
    /\ \A i \in DOMAIN donations_db : donations_db[i].amount.k = "fin"
    /\ \A c \in DOMAIN centers_db : centers_db[c].funds_raised.k = "fin"

\* C11: every donation of the ledger, whether process_donation or
\* execute_payment has put it there, has an amount that is a number of at
\* least 10.
C11_LedgerAmountsAtLeastMinimum ==
    \A i \in DOMAIN donations_db :
        /\ donations_db[i].amount.k # "nan"
        /\ FLe(Fin(MIN_DONATION), donations_db[i].amount)

\* C12: create_payment, whatever it answers (success, CenterNotFound,
\* InvalidAmount, BelowMinimum, GatewayError, GatewayProtocolError), leaves
\* the ledger and every center as they are.
C12_CreatePaymentNoLocalRecord ==
    [][Responds("create_payment") => NoSideEffect]_vars

\* C12 happens: create_payment has answered with success, the gateway holds
\* the payment, and the ledger holds a donation.
C12_Witness ==
    /\ resp.req.op = "create_payment"
    /\ resp.code = 200
    /\ resp.id \in DOMAIN paypal
    /\ Len(donations_db) > 0

\* C13: in every step, each center's funds_raised and donors are not
\* negative and do not decrease (a funds_raised that is NaN, which compares
\* with nothing, is left aside).
C13_AggregatesNeverDecrease ==
    [][\A c \in DOMAIN centers_db :
          /\ centers_db'[c].donors >= 0
          /\ centers_db'[c].donors >= centers_db[c].donors
          /\ \/ centers_db'[c].funds_raised.k = "nan"
             \/ centers_db[c].funds_raised.k = "nan"
             \/ /\ FLe(Fin(0), centers_db'[c].funds_raised)
                /\ FLe(centers_db[c].funds_raised, centers_db'[c].funds_raised)
      ]_vars

\* C14: a step never removes a donation from the ledger and never changes a
\* field of one that is there (its status included), and no two donations of
\* the ledger have the same id.
C14_LedgerAppendOnly ==
    [][/\ Len(donations_db') >= Len(donations_db)
       /\ \A i \in DOMAIN donations_db : donations_db'[i] = donations_db[i]
       /\ \A i, j \in DOMAIN donations_db' :
             donations_db'[i].id = donations_db'[j].id => i = j
      ]_vars

\* C14 happens: the ledger holds a pending direct donation and, after it, a
\* completed gateway donation to the same center, and both calls have
\* returned.
C14_Witness ==
    /\ Len(donations_db) = 2
    /\ donations_db[1].status = "pending"
    /\ donations_db[2].status = "completed"
    /\ donations_db[1].center_id = donations_db[2].center_id
    /\ Quiescent

\* The donation of the non-empty sequence ds that was created last
Latest(ds) ==
    ds[CHOOSE i \in DOMAIN ds : \A j \in DOMAIN ds : ds[j].created_at <= ds[i].created_at]

\* C15: whenever no call is running, each center's last_donation is None if
\* the ledger holds no donation to it, and else the created_at of the latest
\* donation to it: the one created last or the one stored last, should the
\* two differ.
C15_LastDonationIsLatest ==
    Quiescent =>
        \A c \in DOMAIN centers_db :
            LET ds == DonationsTo(c) IN
            IF ds = <<>> THEN centers_db[c].last_donation = None
            ELSE \/ centers_db[c].last_donation = Latest(ds).created_at
                 \/ centers_db[c].last_donation = ds[Len(ds)].created_at

\* The labels of the recording steps of process_donation and execute_payment
RecordingLabels ==
    {"pd_store", "pd_load_funds", "pd_store_funds", "pd_load_donors", "pd_store_donors",
     "pd_store_last", "pd_respond",
     "ep_store", "ep_load_funds", "ep_store_funds", "ep_load_donors", "ep_store_donors",
     "ep_store_last", "ep_respond"}

\* C16: no step adds or removes a center or changes a center's id, name,
\* location, goal, created_at or currency; a step changes a center only when
\* it is a recording step of a call that names this center, and a call that
\* has begun to record returns success.
C16_RegistryFixed ==
    [][/\ DOMAIN centers_db' = DOMAIN centers_db
       /\ \A c \in DOMAIN centers_db :
             /\ centers_db'[c].id = centers_db[c].id
             /\ centers_db'[c].name = centers_db[c].name
             /\ centers_db'[c].location = centers_db[c].location
             /\ centers_db'[c].goal = centers_db[c].goal
             /\ centers_db'[c].created_at = centers_db[c].created_at
             /\ centers_db'[c].currency = centers_db[c].currency
             /\ centers_db'[c] # centers_db[c] =>
                   \E t \in Threads :
                       /\ pc[t] \in RecordingLabels
                       /\ pc'[t] # pc[t]
                       /\ local[t].req.center_id = c
       /\ \A t \in Threads :
             (pc[t] \in RecordingLabels /\ pc'[t] = "idle") =>
                 (resp'.code = 200 /\ resp'.error = "none")
      ]_vars

\* C16 happens: two recordings have changed a center's funds_raised, donors
\* and last_donation, and both calls have returned.
C16_Witness ==
    /\ Quiescent
    /\ \E c \in DOMAIN centers_db :
          /\ centers_db[c].donors = 2
          /\ centers_db[c].funds_raised # Fin(0)
          /\ centers_db[c].last_donation # None

\* Two entries of the catalog derive the same center id
Collides(catalog) ==
    \E i, j \in DOMAIN catalog :
        i # j /\ CenterId(catalog[i].country, catalog[i].city) =
                 CenterId(catalog[j].country, catalog[j].city)

C18_NoTornRead ==
    (resp.req.op = "get_center" /\ resp.code = 200) =>
        /\ resp.body[1].funds_raised = Fin(0) <=> resp.body[1].donors = 0
        /\ resp.body[1].donors = 0 <=> resp.body[1].last_donation = None

\* C19: execute_payment with a center that is not in the registry answers
\* CenterNotFound (404) in the step that takes the request, before
\* Payment.find and payment.execute: the gateway's payments stay as they
\* are, and no call that is at the gateway names an unknown center.
C19_CenterCheckedBeforeGateway ==
    [][/\ (AnswersExecute /\ ~CenterKnown(resp'.req)) =>
             /\ resp'.error = "CenterNotFound"
             /\ resp'.code = 404
       /\ (Responds("execute_payment") /\ resp'.error = "CenterNotFound") =>
             /\ paypal' = paypal
             /\ pc' = pc
       /\ \A t \in Threads :
             pc'[t] \in {"ep_find", "ep_execute"} => CenterKnown(local'[t].req)
      ]_vars

\* C19 happens: execute_payment is answered CenterNotFound for a payment the
\* gateway holds, which is still to be executed.
C19_Witness ==
    /\ resp.req.op = "execute_payment"
    /\ resp.error = "CenterNotFound"
    /\ resp.req.payment_id \in DOMAIN paypal
    /\ paypal[resp.req.payment_id].state = "created"

\* C20: a recording step of process_donation or execute_payment changes no
\* center but the one the call's request names, the donation it stores and
\* the success it returns name that center too, and the call keeps its
\* request from its first step to its return; for execute_payment this is
\* the center of the request, whichever center the payment was created for.
C20_OnlyNamedCenterChanges ==
    [][\A t \in Threads :
          /\ (pc[t] \in RecordingLabels /\ pc'[t] # pc[t]) =>
                /\ \A c \in DOMAIN centers_db :
                      c # local[t].req.center_id => centers_db'[c] = centers_db[c]
                /\ donations_db' # donations_db =>
                      donations_db'[Len(donations_db')].center_id = local[t].req.center_id
                /\ pc'[t] = "idle" =>
                      /\ resp'.req = local[t].req
                      /\ resp'.body = <<centers_db[local[t].req.center_id]>>
          /\ (pc[t] \in RecordingLabels \cup {"ep_find", "ep_execute"} /\ pc'[t] # "idle") =>
                local'[t].req = local[t].req
      ]_vars

\* C20 happens: execute_payment has returned success for a center other than
\* the one its payment was created for; the center of the request has the
\* donation and the center of the payment has none.
C20_Witness ==
    /\ resp.req.op = "execute_payment"
    /\ resp.code = 200
    /\ paypal[resp.req.payment_id].sku # resp.req.center_id
    /\ centers_db[resp.req.center_id].donors > 0
    /\ centers_db[paypal[resp.req.payment_id].sku].donors = 0
    /\ centers_db[paypal[resp.req.payment_id].sku].funds_raised = Fin(0)

====
